---------------------------- MODULE Spec2Model ----------------------------
(***************************************************************************)
(* PdfDoctor: the pipeline of inference.py (main) and the text routines it *)
(* calls (src/keywords.py, src/summarize.py, src/sections.py,              *)
(* src/llm_extract.py, src/db.py, src/extract_text.py).                    *)
(*                                                                         *)
(* Texts are strings; a character is a string of length 1.  The regular    *)
(* expressions of the source are modelled character by character on the    *)
(* alphabet: letters, digits, space, newline, tab and . , ! ? ; [ ]        *)
(* Patterns of the source that need another character (':', '/', '(',      *)
(* '<', '=') cannot match such a text and change nothing in it.            *)
(***************************************************************************)
EXTENDS Integers, Sequences, FiniteSets, TLC

VARIABLES
  \* a function applied alone to a text (SpecKw, SpecSum)
  text,      \* argument of the function under study
  generated, \* what the summarization model answered, "" before it is called
  called,    \* number of calls of the summarization model
  ret,       \* value returned by the function, NoValue before it returns
  fn,        \* "input" before the call, then the name of the function applied
  \* runs of main (Spec)
  pdf_pages, \* the text of the pages of the PDF file on disk
  db,        \* the SQLite file: whether it exists, the rows of papers, sqlite_sequence
  pc,        \* the stage main has reached
  run,       \* number of runs of main started
  frame,     \* the local variables of main
  llm_calls, \* calls of llm_extract_abstract_conclusion in this run
  db_before, \* db when this run started
  sections_found \* what extract_abstract_and_conclusion returned in this run

fvars == <<text, generated, called, ret, fn>>
pvars == <<pdf_pages, db, pc, run, frame, llm_calls, db_before, sections_found>>
vars == <<text, generated, called, ret, fn, pdf_pages, db, pc, run, frame, llm_calls,
          db_before, sections_found>>

NoValue == [none |-> TRUE]

---------------------------------------------------------------------------
(* Characters and strings                                                  *)

Ch(t, i) == IF i >= 1 /\ i <= Len(t) THEN SubSeq(t, i, i) ELSE ""

UPPER == "ABCDEFGHIJKLMNOPQRSTUVWXYZ"
LOWER == "abcdefghijklmnopqrstuvwxyz"
DIGITS == "0123456789"

Chars(s) == {Ch(s, i) : i \in 1..Len(s)}

UpperSet == Chars(UPPER)
DigitSet == Chars(DIGITS)
WordSet == Chars(UPPER) \cup Chars(LOWER) \cup Chars(DIGITS) \cup {"_"}
SpaceSet == {" ", "\n", "\t", "\r"}
ToLower == [c \in UpperSet |-> Ch(LOWER, CHOOSE k \in 1..Len(UPPER) : Ch(UPPER, k) = c)]

IsUpper(c) == c \in UpperSet
IsDigit(c) == c \in DigitSet
\* \s of the re module, on the alphabet
IsSpace(c) == c \in SpaceSet
\* \w of the re module, on the alphabet
IsWordChar(c) == c \in WordSet

\* str.lower() of one character
LowerCh(c) == IF IsUpper(c) THEN ToLower[c] ELSE c

\* str.lower()
RECURSIVE LowerRange(_, _, _)
LowerRange(t, lo, hi) ==
  IF lo > hi THEN ""
  ELSE IF lo = hi THEN LowerCh(Ch(t, lo))
  ELSE LET mid == (lo + hi) \div 2
       IN  LowerRange(t, lo, mid) \o LowerRange(t, mid + 1, hi)

Lower(t) == LowerRange(t, 1, Len(t))

SetMin(S) == CHOOSE m \in S : \A k \in S : m <= k
SetMax(S) == CHOOSE m \in S : \A k \in S : m >= k

\* str.strip()
Strip(t) ==
  LET ink == {i \in 1..Len(t) : ~IsSpace(Ch(t, i))}
  IN  IF ink = {} THEN "" ELSE SubSeq(t, SetMin(ink), SetMax(ink))

\* len(str.split()): the number of maximal runs of non-whitespace
WordCount(t) ==
  Cardinality({i \in 1..Len(t) : ~IsSpace(Ch(t, i)) /\ (i = 1 \/ IsSpace(Ch(t, i - 1)))})

\* the literal kw occurs in t at position i
MatchAt(t, kw, i) ==
  /\ i >= 1
  /\ i + Len(kw) - 1 <= Len(t)
  /\ SubSeq(t, i, i + Len(kw) - 1) = kw

Occurrences(t, kw) == {i \in 1..Len(t) : MatchAt(t, kw, i)}

\* len(re.findall(re.escape(kw), t)): the occurrences of kw in t found from
\* left to right, each search resuming after the previous match
RECURSIVE CountFrom(_, _, _)
CountFrom(occ, width, from) ==
  LET rest == {i \in occ : i >= from}
  IN  IF rest = {} THEN 0 ELSE 1 + CountFrom(occ, width, SetMin(rest) + width)

findall_count(t, kw) == CountFrom(Occurrences(t, kw), Len(kw), 1)

---------------------------------------------------------------------------
(* src/keywords.py                                                         *)

RECURSIVE SumHits(_, _, _)
SumHits(t, keywords, k) ==
  IF k > Len(keywords) THEN 0
  ELSE findall_count(t, Lower(keywords[k])) + SumHits(t, keywords, k + 1)

_count_hits(txt, keywords) == SumHits(Lower(txt), keywords, 1)

\* The dictionaries keep their insertion order, as Python's dict does.
REGION_KEYWORDS == <<
  [name |-> "tibial_plateau",
   kws |-> <<"tibial plateau", "schatzker", "proximal tibia",
             "lateral tibial plateau", "medial tibial plateau">>],
  [name |-> "pelvis",
   kws |-> <<"pelvic fracture", "pelvis", "pelvic ring", "acetabulum",
             "acetabular", "pubic ramus", "iliac">>],
  [name |-> "distal_radius",
   kws |-> <<"distal radius", "radius fracture", "colles", "smith fracture",
             "wrist fracture">>] >>

TYPE_KEYWORDS == <<
  [name |-> "intra_articular", kws |-> <<"intra-articular", "intra articular">>],
  [name |-> "extra_articular", kws |-> <<"extra-articular", "extra articular">>],
  [name |-> "comminuted", kws |-> <<"comminuted">>],
  [name |-> "displaced", kws |-> <<"displaced", "displacement">>],
  [name |-> "open", kws |-> <<"open fracture">>],
  [name |-> "closed", kws |-> <<"closed fracture">>] >>

LOCATION_KEYWORDS == <<
  [name |-> "proximal", kws |-> <<"proximal">>],
  [name |-> "distal", kws |-> <<"distal">>],
  [name |-> "left", kws |-> <<" left ", " lt ", " left-sided">>],
  [name |-> "right", kws |-> <<" right ", " rt ", " right-sided">>],
  [name |-> "medial", kws |-> <<"medial">>],
  [name |-> "lateral", kws |-> <<"lateral">>],
  [name |-> "posterior", kws |-> <<"posterior">>],
  [name |-> "anterior", kws |-> <<"anterior">>] >>

\* [(name, _count_hits(text, kws)) for name, kws in dict.items()], from the
\* k-th entry on
RECURSIVE ScoresFrom(_, _, _)
ScoresFrom(txt, dict, k) ==
  IF k > Len(dict) THEN <<>>
  ELSE <<[name |-> dict[k].name, score |-> _count_hits(txt, dict[k].kws)]>>
       \o ScoresFrom(txt, dict, k + 1)

Scores(txt, dict) == ScoresFrom(txt, dict, 1)

\* a sort that is not stable: x goes before the entries of an equal score
RECURSIVE InsertDescUnstable(_, _)
InsertDescUnstable(s, x) ==
  IF s = <<>> THEN <<x>>
  ELSE IF Head(s).score <= x.score THEN <<x>> \o s
  ELSE <<Head(s)>> \o InsertDescUnstable(Tail(s), x)

\* s with x inserted before the first entry of a strictly smaller score
RECURSIVE InsertDesc(_, _)
InsertDesc(s, x) ==
  IF s = <<>> THEN <<x>>
  ELSE IF Head(s).score < x.score THEN <<x>> \o s
  ELSE <<Head(s)>> \o InsertDesc(Tail(s), x)

\* sorted(..., key=score, reverse=True): stable, equal scores keep their order
RECURSIVE SortDesc(_)
SortDesc(s) ==
  IF s = <<>> THEN <<>>
  ELSE InsertDesc(SortDesc(SubSeq(s, 1, Len(s) - 1)), s[Len(s)])

Names(s) == [k \in 1..Len(s) |-> s[k].name]

DEFAULT_MAX_ITEMS == 3

\* the most frequent locations, both members of a pair kept
_top_locations_unfiltered(txt, max_items) ==
  LET counts == SelectSeq(Scores(txt, LOCATION_KEYWORDS), LAMBDA e : e.score > 0)
      ordered == Names(SortDesc(counts))
  IN  SubSeq(ordered, 1, IF Len(ordered) < max_items THEN Len(ordered) ELSE max_items)

_top_locations(txt, max_items) ==
  LET counts == SelectSeq(Scores(txt, LOCATION_KEYWORDS), LAMBDA e : e.score > 0)
      ordered == Names(SortDesc(counts))
      side == SelectSeq(ordered, LAMBDA x : x \in {"left", "right"})
      zone == SelectSeq(ordered, LAMBDA x : x \in {"proximal", "distal"})
      others == SelectSeq(ordered,
                  LAMBDA x : x \notin {"left", "right", "proximal", "distal"})
      final == (IF side # <<>> THEN <<side[1]>> ELSE <<>>)
               \o (IF zone # <<>> THEN <<zone[1]>> ELSE <<>>)
               \o others
  IN  IF counts = <<>> THEN <<>>
      ELSE SubSeq(final, 1, IF Len(final) < max_items THEN Len(final) ELSE max_items)

\* sorted(set(fracture_types)): the names in lexicographic order
SORTED_TYPE_NAMES ==
  <<"closed", "comminuted", "displaced", "extra_articular", "intra_articular", "open">>

classify_by_keywords(txt) ==
  LET scores == SortDesc(Scores(txt, REGION_KEYWORDS))
      best_score == scores[1].score
      best_region == IF best_score = 0 THEN "inconnu" ELSE scores[1].name
      types == Scores(txt, TYPE_KEYWORDS)
      hit == {types[k].name : k \in {j \in 1..Len(types) : types[j].score > 0}}
  IN  [region |-> best_region,
       region_score |-> best_score,
       fracture_types |-> SelectSeq(SORTED_TYPE_NAMES, LAMBDA n : n \in hit),
       locations |-> _top_locations(txt, DEFAULT_MAX_ITEMS)]

---------------------------------------------------------------------------
(* src/summarize.py: clean_extracted_text                                  *)

\* the first position from i on that holds no whitespace, Len(t) + 1 if none
RECURSIVE SkipSpace(_, _)
SkipSpace(t, i) == IF i <= Len(t) /\ IsSpace(Ch(t, i)) THEN SkipSpace(t, i + 1) ELSE i

\* the first position of the run of whitespace that ends at i
RECURSIVE SpaceRunStart(_, _)
SpaceRunStart(t, i) == IF i > 1 /\ IsSpace(Ch(t, i - 1)) THEN SpaceRunStart(t, i - 1) ELSE i

\* the first position from i on that holds whitespace, Len(t) + 1 if none
RECURSIVE SkipWord(_, _)
SkipWord(t, i) == IF i <= Len(t) /\ ~IsSpace(Ch(t, i)) THEN SkipWord(t, i + 1) ELSE i

\* the parts of t between the occurrences of sep, as str.split(sep) finds them
RECURSIVE SplitFrom(_, _, _)
SplitFrom(t, sep, from) ==
  LET rest == {i \in from..Len(t) : MatchAt(t, sep, i)}
  IN  IF rest = {} THEN <<SubSeq(t, from, Len(t))>>
      ELSE <<SubSeq(t, from, SetMin(rest) - 1)>> \o SplitFrom(t, sep, SetMin(rest) + Len(sep))

Split(t, sep) == SplitFrom(t, sep, 1)

\* sep.join(parts)
RECURSIVE Join(_, _)
Join(parts, sep) ==
  IF parts = <<>> THEN ""
  ELSE IF Len(parts) = 1 THEN parts[1]
  ELSE parts[1] \o sep \o Join(Tail(parts), sep)

\* text.replace("\r\n", "\n").replace("\r", "\n")
_newline_at(t, i) ==
  IF Ch(t, i) = "\r" THEN (IF Ch(t, i + 1) = "\n" THEN "" ELSE "\n") ELSE Ch(t, i)

\* re.sub(r"\n{3,}", "\n\n", text)
_blank_lines_at(t, i) ==
  IF Ch(t, i) = "\n" /\ Ch(t, i - 1) = "\n" /\ Ch(t, i - 2) = "\n" THEN "" ELSE Ch(t, i)

\* the first position of the run of non-whitespace that holds i
RECURSIVE WordStart(_, _)
WordStart(t, i) == IF i > 1 /\ ~IsSpace(Ch(t, i - 1)) THEN WordStart(t, i - 1) ELSE i

\* re.sub(r"www\.[^\s]+", "", text): position i lies in a match when "www."
\* and one more character of its word start at or before i
_www_at(t, i) ==
  IF /\ ~IsSpace(Ch(t, i))
     /\ \E b \in WordStart(t, i)..i :
          MatchAt(t, "www.", b) /\ b + 4 <= Len(t) /\ ~IsSpace(Ch(t, b + 4))
  THEN "" ELSE Ch(t, i)

\* re.search of a pattern word1\s+word2\s+... in a line, whatever the case
RECURSIVE PartsAt(_, _, _, _)
PartsAt(line, parts, k, i) ==
  /\ MatchAt(line, parts[k], i)
  /\ \/ k = Len(parts)
     \/ LET after == i + Len(parts[k])
        IN  /\ IsSpace(Ch(line, after))
            /\ PartsAt(line, parts, k + 1, SkipSpace(line, after))

SearchParts(line, parts) ==
  LET low == Lower(line) IN \E i \in 1..Len(low) : PartsAt(low, parts, 1, i)

footer_noise ==
  {<<"crossref">>, <<"open", "access">>, <<"creative", "commons">>, <<"license">>,
   <<"pmcid">>, <<"pmid">>, <<"issn">>}

journal_patterns ==
  {<<"efort", "open", "reviews">>, <<"trauma", "efort">>, <<"open", "reviews">>}

\* the lines of the text that match none of the patterns
DropLines(t, patterns) ==
  Join(SelectSeq(Split(t, "\n"),
                 LAMBDA line : ~\E pat \in patterns : SearchParts(line, pat)),
       "\n")

\* \[\d+(?:,\s*\d+)*\] matched from position b: position after the match, 0
\* when there is none
RECURSIVE SkipDigits(_, _)
SkipDigits(t, i) == IF IsDigit(Ch(t, i)) THEN SkipDigits(t, i + 1) ELSE i

RECURSIVE CitationTail(_, _)
CitationTail(t, i) ==
  LET d == SkipSpace(t, i + 1)
  IN  IF Ch(t, i) = "," /\ IsDigit(Ch(t, d)) THEN CitationTail(t, SkipDigits(t, d))
      ELSE IF Ch(t, i) = "]" THEN i + 1
      ELSE 0

CitationEnd(t, b) ==
  IF Ch(t, b) = "[" /\ IsDigit(Ch(t, b + 1)) THEN CitationTail(t, SkipDigits(t, b + 1)) ELSE 0

\* the "[" that opens the run of digits, commas and whitespace holding i, 0
\* when there is none
RECURSIVE OpeningBracket(_, _)
OpeningBracket(t, i) ==
  IF i < 1 THEN 0
  ELSE IF Ch(t, i) = "[" THEN i
  ELSE IF IsDigit(Ch(t, i)) \/ IsSpace(Ch(t, i)) \/ Ch(t, i) = "," THEN OpeningBracket(t, i - 1)
  ELSE 0

\* re.sub(r"\[\d+(?:,\s*\d+)*\]", "", text)
_citation_at(t, i) ==
  LET b == IF Ch(t, i) = "]" THEN OpeningBracket(t, i - 1) ELSE OpeningBracket(t, i)
  IN  IF b > 0 /\ CitationEnd(t, b) > i THEN "" ELSE Ch(t, i)

\* re.sub(r"\t+", " ", text)
_tabs_at(t, i) ==
  IF Ch(t, i) = "\t" THEN (IF Ch(t, i - 1) = "\t" THEN "" ELSE " ") ELSE Ch(t, i)

\* re.sub(r" {2,}", " ", text)
_spaces_at(t, i) == IF Ch(t, i) = " " /\ Ch(t, i - 1) = " " THEN "" ELSE Ch(t, i)

\* re.sub(r"\s+([.!?,;:])", r"\1", text)
_space_before_punct_at(t, i) ==
  IF IsSpace(Ch(t, i)) /\ Ch(t, SkipSpace(t, i)) \in {".", "!", "?", ",", ";", ":"}
  THEN "" ELSE Ch(t, i)

\* re.sub(r"([.!?])\s*([A-Z])", r"\1 \2", text)
_space_after_punct_at(t, i) ==
  LET c == Ch(t, i)
  IN  IF c \in {".", "!", "?"} /\ IsUpper(Ch(t, SkipSpace(t, i + 1))) THEN c \o " "
      ELSE IF /\ IsSpace(c)
              /\ Ch(t, SpaceRunStart(t, i) - 1) \in {".", "!", "?"}
              /\ IsUpper(Ch(t, SkipSpace(t, i)))
           THEN ""
      ELSE c

\* [\W\d_] of the re module, on the alphabet: anything but a letter
IsSymbol(c) == ~IsWordChar(c) \/ IsDigit(c) \/ c = "_"

\* position i follows, in its run of symbols, the start of a line
RECURSIVE AfterLineStart(_, _)
AfterLineStart(t, i) ==
  \/ i = 1
  \/ /\ IsSymbol(Ch(t, i - 1))
     /\ Ch(t, i - 1) = "\n" \/ AfterLineStart(t, i - 1)

\* re.sub(r"^[\W\d_]+\s*", "", text, flags=re.MULTILINE)
_leading_symbols_at(t, i) ==
  IF IsSymbol(Ch(t, i)) /\ AfterLineStart(t, i) THEN "" ELSE Ch(t, i)

\* [part.strip() for part in parts]
RECURSIVE StripAll(_)
StripAll(parts) ==
  IF parts = <<>> THEN <<>> ELSE <<Strip(Head(parts))>> \o StripAll(Tail(parts))

\* s.replace("\r", "\n")
_cr_at(t, i) == IF Ch(t, i) = "\r" THEN "\n" ELSE Ch(t, i)

\* " ".join(s.split()): a run of whitespace becomes one space, none at the ends
_whitespace_at(t, i) ==
  IF ~IsSpace(Ch(t, i)) THEN Ch(t, i)
  ELSE IF SpaceRunStart(t, i) = i /\ i > 1 /\ SkipSpace(t, i) <= Len(t) THEN " "
  ELSE ""

\* what the substitution named rule leaves of the character at position i
Emit(rule, t, i) ==
  CASE rule = "newline" -> _newline_at(t, i)
    [] rule = "cr" -> _cr_at(t, i)
    [] rule = "whitespace" -> _whitespace_at(t, i)
    [] rule = "blank_lines" -> _blank_lines_at(t, i)
    [] rule = "www" -> _www_at(t, i)
    [] rule = "citation" -> _citation_at(t, i)
    [] rule = "tabs" -> _tabs_at(t, i)
    [] rule = "spaces" -> _spaces_at(t, i)
    [] rule = "space_before_punct" -> _space_before_punct_at(t, i)
    [] rule = "space_after_punct" -> _space_after_punct_at(t, i)
    [] rule = "leading_symbols" -> _leading_symbols_at(t, i)

\* the text rewritten by a substitution, position by position
RECURSIVE Rewrite(_, _, _, _)
Rewrite(rule, t, lo, hi) ==
  IF lo > hi THEN ""
  ELSE IF lo = hi THEN Emit(rule, t, lo)
  ELSE LET mid == (lo + hi) \div 2
       IN  Rewrite(rule, t, lo, mid) \o Rewrite(rule, t, mid + 1, hi)

Pass(t, rule) == Rewrite(rule, t, 1, Len(t))

clean_extracted_text(txt) ==
  LET t0 == Strip(txt)
      t1 == Pass(Pass(t0, "newline"), "blank_lines")
      t2 == Pass(t1, "www")
      t3 == DropLines(DropLines(t2, footer_noise), journal_patterns)
      t4 == Pass(t3, "citation")
      t5 == Pass(Pass(t4, "tabs"), "spaces")
      t6 == Pass(Pass(t5, "space_before_punct"), "space_after_punct")
      t7 == Pass(t6, "leading_symbols")
      t8 == Join(StripAll(Split(t7, "\n")), "\n")
      t9 == Join(SelectSeq(Split(t8, "\n\n"), LAMBDA block : Strip(block) # ""), "\n\n")
  IN  IF t0 = "" THEN "" ELSE Strip(t9)

---------------------------------------------------------------------------
(* src/sections.py                                                         *)

\* sections.py:12-15, without the strip that llm_extract.py:11 adds
_normalize(txt) == Pass(Pass(txt, "cr"), "blank_lines")

LineStart(t, p) == p = 1 \/ Ch(t, p - 1) = "\n"

\* (?im)^title\s*$ matched at p in the lowercased text: the position of the
\* first character after the match, 0 when there is no match.  \s* gives
\* back whitespace until $ stands before a newline or at the end.
TitleEnd(low, title, p) ==
  IF ~(LineStart(low, p) /\ MatchAt(low, title, p)) THEN 0
  ELSE LET e == p + Len(title)
           r == SkipSpace(low, e)
           nl == {k \in e..(r - 1) : Ch(low, k) = "\n"}
       IN  IF r > Len(low) THEN Len(low) + 1
           ELSE IF nl = {} THEN 0
           ELSE SetMax(nl)

\* the titles of sections.py:59-68, lowercased as (?i) reads them; "Résumé"
\* is outside the alphabet
abstract_titles == {"abstract", "resume"}
conclusion_titles == {"conclusion", "conclusions", "concluding remarks"}
common_stops ==
  {"introduction", "methods", "materials and methods", "results", "discussion",
   "keywords", "references", "acknowledgements", "supplementary materials"}

\* the line starts from position from on where one of the titles matches
TitleLines(low, titles, from) ==
  {p \in from..Len(low) :
     LineStart(low, p) /\ \E title \in titles : TitleEnd(low, title, p) > 0}

_find_section(txt, start_titles, stop_titles) ==
  LET t == _normalize(txt)
      low == Lower(t)
      starts == TitleLines(low, start_titles, 1)
      p == SetMin(starts)
      start_idx == SetMax({TitleEnd(low, title, p) : title \in start_titles})
      stops == TitleLines(low, stop_titles, start_idx + 1)
      end_idx == IF stops = {} THEN Len(t) + 1 ELSE SetMin(stops)
  IN  IF starts = {} THEN "" ELSE Strip(SubSeq(t, start_idx, end_idx - 1))

\* The patterns "abstract:" and "conclusion:" of sections.py:43-55 need a
\* ':' and match no text of the alphabet: both sections come from the titles.
extract_abstract_and_conclusion(txt) ==
  <<Strip(_find_section(txt, abstract_titles, common_stops \cup conclusion_titles)),
    Strip(_find_section(txt, conclusion_titles, common_stops))>>

---------------------------------------------------------------------------
(* src/llm_extract.py                                                      *)

\* (?i)^word\s*:\s* matched at the start of s: the position after the match,
\* 1 when there is no match
PrefixEnd(s, word) ==
  LET c == SkipSpace(s, Len(word) + 1)
  IN  IF MatchAt(Lower(s), word, 1) /\ Ch(s, c) = ":" THEN SkipSpace(s, c + 1) ELSE 1

DropPrefix(s, words) ==
  LET ends == {PrefixEnd(s, w) : w \in words}
  IN  Strip(SubSeq(s, SetMax(ends), Len(s)))

_clean_generated(s) ==
  DropPrefix(DropPrefix(Strip(s), {"abstract"}), {"conclusion", "conclusions"})

\* the positions where the words of t start
WordStarts(t) ==
  {i \in 1..Len(t) : ~IsSpace(Ch(t, i)) /\ (i = 1 \/ IsSpace(Ch(t, i - 1)))}

\* " ".join(t.split()[:n])
FirstWords(t, n) ==
  LET ws == WordStarts(t)
      cut == CHOOSE i \in ws : Cardinality({j \in ws : j < i}) = n
  IN  IF Cardinality(ws) <= n THEN Pass(t, "whitespace")
      ELSE Pass(SubSeq(t, 1, cut - 1), "whitespace")

\* " ".join(t.split()[-n:])
LastWords(t, n) ==
  LET ws == WordStarts(t)
      cut == CHOOSE i \in ws : Cardinality({j \in ws : j >= i}) = n
  IN  IF Cardinality(ws) <= n THEN Pass(t, "whitespace")
      ELSE Pass(SubSeq(t, cut, Len(t)), "whitespace")

FIRST_PARAGRAPHS_MAX_WORDS == 180
MIN_PARAGRAPH_CHARS == 40
MAX_PARAGRAPHS == 3

_fallback_first_paragraphs(txt, max_words) ==
  LET t == Strip(_normalize(txt))
      paras == SelectSeq(StripAll(Split(t, "\n\n")), LAMBDA x : Len(x) > MIN_PARAGRAPH_CHARS)
      first == SubSeq(paras, 1, IF Len(paras) < MAX_PARAGRAPHS THEN Len(paras) ELSE MAX_PARAGRAPHS)
  IN  IF paras = <<>> THEN "" ELSE FirstWords(Join(first, " "), max_words)

\* llm_extract_abstract_conclusion(raw_text) when the generation model
\* answers out_abs to the first prompt and out_conc to the second.  The
\* chunks only feed the model, whose answers are inputs here.
llm_extract_abstract_conclusion(raw, out_abs, out_conc) ==
  LET t == Strip(_normalize(raw))
      a == _clean_generated(out_abs)
      c == _clean_generated(out_conc)
      abstract == IF Lower(a) = "empty" THEN "" ELSE a
      conclusion == IF Lower(c) = "empty" THEN "" ELSE c
  IN  <<Strip(IF abstract = "" THEN _fallback_first_paragraphs(t, FIRST_PARAGRAPHS_MAX_WORDS)
               ELSE abstract),
        Strip(conclusion)>>

---------------------------------------------------------------------------
(* inference.py: _fallback_tail                                            *)

\* the words of t[lo..hi] in reverse order, separated by a space
RECURSIVE ReverseWordsIn(_, _, _, _)
ReverseWordsIn(t, ws, lo, hi) ==
  LET here == {i \in ws : lo <= i /\ i <= hi}
      mid == (lo + hi) \div 2
      left == ReverseWordsIn(t, ws, lo, mid)
      right == ReverseWordsIn(t, ws, mid + 1, hi)
  IN  IF here = {} THEN ""
      ELSE IF Cardinality(here) = 1
           THEN LET b == SetMin(here) IN SubSeq(t, b, SkipWord(t, b) - 1)
      ELSE IF left = "" THEN right
      ELSE IF right = "" THEN left
      ELSE right \o " " \o left

ReverseWords(t) == ReverseWordsIn(t, WordStarts(t), 1, Len(t))

RECURSIVE ReverseEach(_)
ReverseEach(parts) ==
  IF parts = <<>> THEN <<>> ELSE <<ReverseWords(Head(parts))>> \o ReverseEach(Tail(parts))

TAIL_MAX_WORDS == 200

\* inference.py:20-31.  The paragraphs are read from the last one, their
\* words appended in order, and the whole list is reversed (line 30): the
\* paragraphs come back in their order, each with its words reversed.
_fallback_tail(txt, max_words) ==
  LET t == Pass(txt, "cr")
      parts == SelectSeq(StripAll(Split(t, "\n\n")), LAMBDA x : x # "")
  IN  Strip(LastWords(Join(ReverseEach(parts), " "), max_words))

---------------------------------------------------------------------------
(* src/summarize.py: _clean_for_summary and summarize                      *)

\* The blacklist entries that are plain words; the other entries of the
\* source hold '<', '=', ':' or '/', which no text of the alphabet holds.
blacklist ==
  {"endnote", "software", "statistical analysis", "ibm", "spss", "database",
   "search strategy", "screened", "eligibility criteria", "data extraction",
   "crossref", "open access", "creativecommons", "license", "references",
   "publisher", "issn", "pmcid", "pmid"}

\* the whitespace that re.split(r"(?<=[.!?])\s+", text) splits at starts here
SentenceBreaks(t) ==
  {i \in 2..Len(t) : IsSpace(Ch(t, i)) /\ Ch(t, i - 1) \in {".", "!", "?"}}

RECURSIVE SentencesFrom(_, _, _)
SentencesFrom(t, breaks, from) ==
  LET rest == {i \in breaks : i >= from}
  IN  IF rest = {} THEN <<SubSeq(t, from, Len(t))>>
      ELSE <<SubSeq(t, from, SetMin(rest) - 1)>>
           \o SentencesFrom(t, breaks, SkipSpace(t, SetMin(rest)))

_clean_for_summary(txt) ==
  LET sentences == StripAll(SentencesFrom(txt, SentenceBreaks(txt), 1))
      kept == SelectSeq(sentences,
                LAMBDA x : x # "" /\ ~\E b \in blacklist : Occurrences(Lower(x), b) # {})
  IN  Strip(Join(kept, " "))

MIN_SUMMARY_WORDS == 60
MIN_GENERATED_WORDS == 5

\* kw occurs at position i between two word boundaries (\b)
WordAt(t, kw, i) ==
  /\ MatchAt(t, kw, i)
  /\ ~IsWordChar(Ch(t, i - 1))
  /\ ~IsWordChar(Ch(t, i + Len(kw)))

\* re.search(r"(?i)\bcrossref\b|\bdoi\b|creativecommons|open\s+access", summary)
HasBiblioMarker(summary) ==
  LET low == Lower(summary)
  IN  \E i \in 1..Len(low) :
        \/ WordAt(low, "crossref", i)
        \/ WordAt(low, "doi", i)
        \/ MatchAt(low, "creativecommons", i)
        \/ PartsAt(low, <<"open", "access">>, 1, i)

\* a filter that only counts the words
_safety_filter_length_only(out) ==
  LET summary == Strip(out)
  IN  IF WordCount(summary) < MIN_GENERATED_WORDS THEN "" ELSE summary

\* summarize.py:222-235: what summarize returns when the model answered out
_safety_filter(out) ==
  LET summary == Strip(out)
  IN  IF WordCount(summary) < MIN_GENERATED_WORDS THEN ""
      ELSE IF HasBiblioMarker(summary) THEN ""
      ELSE summary

\* summarize.py:196-204: the text the length test of line 207 looks at
_prepare(txt) ==
  LET t0 == Strip(txt)
  IN  IF t0 = "" THEN "" ELSE _clean_for_summary(clean_extracted_text(t0))

\* summarize(text) when the model, if called, answers out: the value returned
\* and the number of calls of the model.  The model's answer does not depend
\* on the text here, so _truncate_for_model has no part in the result.
summarize(txt, out) ==
  LET t == _prepare(txt)
  IN  IF Strip(txt) = "" THEN [ret |-> "", called |-> 0]
      ELSE IF WordCount(t) < MIN_SUMMARY_WORDS THEN [ret |-> t, called |-> 0]
      ELSE [ret |-> _safety_filter(out), called |-> 1]

\* n words separated by a space
RECURSIVE Words(_)
Words(n) == IF n = 0 THEN "" ELSE IF n = 1 THEN "w" ELSE Words(n - 1) \o " w"

---------------------------------------------------------------------------
(* src/extract_text.py and src/db.py                                       *)

\* extract_text.py:16-23: the pages that have text, joined and stripped
extract_text_from_pdf(pages) ==
  Strip(Join(SelectSeq(pages, LAMBDA page : page # ""), "\n"))

SeqMax(ids) == IF ids = {} THEN 0 ELSE SetMax(ids)

NoDb == [file |-> FALSE, papers |-> <<>>, sequence |-> 0]

\* a connection that creates the table anew
get_conn_fresh_table(d) == [d EXCEPT !.file = TRUE, !.papers = <<>>]

\* db.py:33-40: the file is created by sqlite3.connect, the table by
\* CREATE TABLE IF NOT EXISTS, which leaves the rows of an existing table
get_conn(d) == [d EXCEPT !.file = TRUE]

\* INTEGER PRIMARY KEY AUTOINCREMENT: one more than the largest id the table
\* ever held
NextId(d) ==
  LET top == SeqMax({d.papers[k].id : k \in 1..Len(d.papers)})
  IN  (IF top > d.sequence THEN top ELSE d.sequence) + 1

\* db.py:43-49: the database after the INSERT and cur.lastrowid.  The column
\* created_at, filled by SQLite's clock, is left out.
insert_paper(d, data) ==
  LET id == NextId(d)
  IN  [db |-> [d EXCEPT !.papers = Append(@, [id |-> id, data |-> data]),
                        !.sequence = id],
       lastrowid |-> id]

---------------------------------------------------------------------------
(* inference.py: main                                                      *)

MIN_ABSTRACT_WORDS == 50
MIN_CONCLUSION_WORDS == 30

\* inference.py:51
abstract_ok(abstract_text) ==
  abstract_text # "" /\ WordCount(abstract_text) >= MIN_ABSTRACT_WORDS

\* inference.py:52
conclusion_ok(conclusion_text) ==
  conclusion_text # "" /\ WordCount(conclusion_text) >= MIN_CONCLUSION_WORDS

\* the fallback only when both sections are weak
needs_fallback_both(abstract_text, conclusion_text) ==
  ~abstract_ok(abstract_text) /\ ~conclusion_ok(conclusion_text)

\* inference.py:54
needs_fallback(abstract_text, conclusion_text) ==
  ~abstract_ok(abstract_text) \/ ~conclusion_ok(conclusion_text)

\* Path(args.pdf).name
PathName(path) ==
  LET slashes == Occurrences(path, "/")
  IN  IF slashes = {} THEN path ELSE SubSeq(path, SetMax(slashes) + 1, Len(path))

\* the first text of the sequence that is not empty, "" if all are (a or b or c)
RECURSIVE FirstNonEmpty(_)
FirstNonEmpty(texts) ==
  IF texts = <<>> THEN ""
  ELSE IF Head(texts) # "" THEN Head(texts)
  ELSE FirstNonEmpty(Tail(texts))

PDF_ON_DISK == "papers/paper.pdf"
PDF_MISSING == "papers/missing.pdf"
PdfPaths == {PDF_ON_DISK, PDF_MISSING}

\* The PDF on disk: a first page with the title, the abstract (a words) and
\* the introduction, a page without text, a last page with the conclusion
\* (c words) and the references.
FirstPage(a) ==
  "Schatzker fracture\n"
  \o (IF a > 0 THEN "Abstract\n" \o Words(a) \o "\n\n" ELSE "")
  \o "Introduction\nThe left proximal tibia\n"

LastPage(c) ==
  (IF c > 0 THEN "Conclusion\n" \o Words(c) \o "\n\n" ELSE "Discussion\nw w\n\n")
  \o "References\n[1] w"

SectionSizes ==
  {<<0, 0>>,
   <<MIN_ABSTRACT_WORDS - 1, MIN_CONCLUSION_WORDS>>,
   <<MIN_ABSTRACT_WORDS, MIN_CONCLUSION_WORDS - 1>>,
   <<MIN_ABSTRACT_WORDS, MIN_CONCLUSION_WORDS>>,
   <<MIN_SUMMARY_WORDS, MIN_CONCLUSION_WORDS>>}

Documents == {<<FirstPage(size[1]), "", LastPage(size[2])>> : size \in SectionSizes}

\* answers of the generation model of llm_extract.py (generated_text)
LlmOutputs == {"EMPTY", "Abstract: The tibial fracture healed."}

\* answers of the summarization model in a run of main
MainSummaryOutputs == {"The fracture healed well overall.", "CrossRef"}

MaxRuns == 2

NoFrame ==
  [pdf_path |-> "", raw_text |-> "", abstract_text |-> "", conclusion_text |-> "",
   abstract_text_raw |-> "", conclusion_text_raw |-> "", raw_text_clean |-> "",
   cls |-> NoValue, abstract_summary |-> "", conclusion_summary |-> "",
   db_id |-> 0, failed_at |-> ""]

\* main is not run: the state of the runs of main under SpecKw and SpecSum
MainNotRun ==
  /\ pdf_pages = <<>>
  /\ db = NoDb
  /\ pc = "not_run"
  /\ run = 0
  /\ frame = NoFrame
  /\ llm_calls = 0
  /\ db_before = NoDb
  /\ sections_found = <<"", "">>

Init ==
  /\ pdf_pages \in Documents
  /\ db = NoDb
  /\ pc = "start"
  /\ run = 1
  /\ frame = NoFrame
  /\ llm_calls = 0
  /\ db_before = NoDb
  /\ sections_found = <<"", "">>
  /\ text = ""
  /\ generated = ""
  /\ called = 0
  /\ ret = NoValue
  /\ fn = "not_applied"

Raise == pc' = "failed" /\ frame' = [frame EXCEPT !.failed_at = pc]

\* the database opened before the PDF is read
main_pdf_missing_db_first ==
  /\ pc = "start"
  /\ pc' = "failed"
  /\ frame' = [frame EXCEPT !.pdf_path = PDF_MISSING, !.failed_at = pc]
  /\ db' = get_conn(db)
  /\ UNCHANGED <<pdf_pages, run, llm_calls, db_before, sections_found>>
  /\ UNCHANGED fvars

\* inference.py:40-41 and extract_text.py:13-14: no file at the path
main_pdf_missing ==
  /\ pc = "start"
  /\ pc' = "failed"
  /\ frame' = [frame EXCEPT !.pdf_path = PDF_MISSING, !.failed_at = pc]
  /\ UNCHANGED <<pdf_pages, db, run, llm_calls, db_before, sections_found>>
  /\ UNCHANGED fvars

\* inference.py:40-41
main_extract_text ==
  /\ pc = "start"
  /\ pc' = "extracted"
  /\ frame' = [frame EXCEPT !.pdf_path = PDF_ON_DISK,
                            !.raw_text = extract_text_from_pdf(pdf_pages)]
  /\ UNCHANGED <<pdf_pages, db, run, llm_calls, db_before, sections_found>>
  /\ UNCHANGED fvars

\* inference.py:44
main_sections ==
  /\ pc = "extracted"
  /\ pc' = "sectioned"
  /\ LET sections == extract_abstract_and_conclusion(frame.raw_text)
     IN  /\ frame' = [frame EXCEPT !.abstract_text = sections[1],
                                   !.conclusion_text = sections[2]]
         /\ sections_found' = sections
  /\ UNCHANGED <<pdf_pages, db, run, llm_calls, db_before>>
  /\ UNCHANGED fvars

\* inference.py:54-66
main_llm_fallback ==
  /\ pc = "sectioned"
  /\ needs_fallback(frame.abstract_text, frame.conclusion_text)
  /\ pc' = "fallback_done"
  /\ llm_calls' = llm_calls + 1
  /\ \E out_abs \in LlmOutputs, out_conc \in LlmOutputs :
       LET llm == llm_extract_abstract_conclusion(frame.raw_text, out_abs, out_conc)
       IN  frame' = [frame EXCEPT
             !.abstract_text =
               IF ~abstract_ok(frame.abstract_text) /\ llm[1] # "" THEN llm[1] ELSE @,
             !.conclusion_text =
               IF ~conclusion_ok(frame.conclusion_text) /\ llm[2] # "" THEN llm[2] ELSE @]
  /\ UNCHANGED <<pdf_pages, db, run, db_before, sections_found>>
  /\ UNCHANGED fvars

\* inference.py:54: both sections reach their thresholds
main_no_fallback ==
  /\ pc = "sectioned"
  /\ ~needs_fallback(frame.abstract_text, frame.conclusion_text)
  /\ pc' = "fallback_done"
  /\ UNCHANGED <<pdf_pages, db, run, frame, llm_calls, db_before, sections_found>>
  /\ UNCHANGED fvars

\* inference.py:58: the fallback is called and raises
main_llm_raises ==
  /\ pc = "sectioned"
  /\ needs_fallback(frame.abstract_text, frame.conclusion_text)
  /\ llm_calls' = llm_calls + 1
  /\ Raise
  /\ UNCHANGED <<pdf_pages, db, run, db_before, sections_found>>
  /\ UNCHANGED fvars

\* inference.py:69-74
main_clean ==
  /\ pc = "fallback_done"
  /\ pc' = "cleaned"
  /\ frame' = [frame EXCEPT
       !.abstract_text_raw = frame.abstract_text,
       !.conclusion_text_raw = frame.conclusion_text,
       !.abstract_text = clean_extracted_text(frame.abstract_text),
       !.conclusion_text = clean_extracted_text(frame.conclusion_text),
       !.raw_text_clean = clean_extracted_text(frame.raw_text)]
  /\ UNCHANGED <<pdf_pages, db, run, llm_calls, db_before, sections_found>>
  /\ UNCHANGED fvars

\* inference.py:77
main_classify ==
  /\ pc = "cleaned"
  /\ pc' = "classified"
  /\ frame' = [frame EXCEPT !.cls = classify_by_keywords(frame.raw_text_clean)]
  /\ UNCHANGED <<pdf_pages, db, run, llm_calls, db_before, sections_found>>
  /\ UNCHANGED fvars

\* inference.py:81-94
main_summarize ==
  /\ pc = "classified"
  /\ pc' = "summarized"
  /\ LET abstract_source == FirstNonEmpty(<<frame.abstract_text, frame.abstract_text_raw>>)
         conclusion_source ==
           FirstNonEmpty(<<frame.conclusion_text, frame.conclusion_text_raw,
                           _fallback_tail(frame.raw_text, TAIL_MAX_WORDS),
                           frame.raw_text_clean, frame.raw_text>>)
     IN  \E out_abs \in MainSummaryOutputs, out_conc \in MainSummaryOutputs :
           LET abstract_summary == summarize(abstract_source, out_abs).ret
               conclusion_summary == summarize(conclusion_source, out_conc).ret
           IN  frame' = [frame EXCEPT
                 !.abstract_summary = abstract_summary,
                 !.conclusion_summary =
                   IF conclusion_summary = "" THEN conclusion_source
                   ELSE conclusion_summary]
  /\ UNCHANGED <<pdf_pages, db, run, llm_calls, db_before, sections_found>>
  /\ UNCHANGED fvars

\* a stage before the database is opened raises: fitz.open, the section
\* extraction, the cleaning, the classification or the summarization
main_raises ==
  /\ pc \in {"start", "extracted", "fallback_done", "cleaned", "classified"}
  /\ Raise
  /\ UNCHANGED <<pdf_pages, db, run, llm_calls, db_before, sections_found>>
  /\ UNCHANGED fvars

\* inference.py:108
main_get_conn ==
  /\ pc = "summarized"
  /\ pc' = "connected"
  /\ db' = get_conn(db)
  /\ UNCHANGED <<pdf_pages, run, frame, llm_calls, db_before, sections_found>>
  /\ UNCHANGED fvars

\* the row of inference.py:109-121
PaperData ==
  [filename |-> PathName(frame.pdf_path),
   pdf_path |-> frame.pdf_path,
   raw_text |-> frame.raw_text_clean,
   abstract_text |-> frame.abstract_text,
   conclusion_text |-> frame.conclusion_text,
   region |-> frame.cls.region,
   region_score |-> frame.cls.region_score,
   fracture_types |-> Join(frame.cls.fracture_types, ","),
   locations |-> Join(frame.cls.locations, ","),
   abstract_summary |-> frame.abstract_summary,
   conclusion_summary |-> frame.conclusion_summary]

\* inference.py:109-124
main_insert_paper ==
  /\ pc = "connected"
  /\ pc' = "done"
  /\ LET inserted == insert_paper(db, PaperData)
     IN  /\ db' = inserted.db
         /\ frame' = [frame EXCEPT !.db_id = inserted.lastrowid]
  /\ UNCHANGED <<pdf_pages, run, llm_calls, db_before, sections_found>>
  /\ UNCHANGED fvars

\* sqlite3 raises: the file cannot be opened (line 108), or the INSERT fails
\* (line 109)
main_db_raises ==
  /\ pc \in {"summarized", "connected"}
  /\ Raise
  /\ UNCHANGED <<pdf_pages, db, run, llm_calls, db_before, sections_found>>
  /\ UNCHANGED fvars

\* the script is run again, on the same database file
main_again ==
  /\ pc \in {"done", "failed"}
  /\ run < MaxRuns
  /\ run' = run + 1
  /\ pc' = "start"
  /\ frame' = NoFrame
  /\ llm_calls' = 0
  /\ db_before' = db
  /\ sections_found' = <<"", "">>
  /\ UNCHANGED <<pdf_pages, db>>
  /\ UNCHANGED fvars

Next ==
  \/ main_pdf_missing
  \/ main_extract_text
  \/ main_sections
  \/ main_llm_fallback
  \/ main_no_fallback
  \/ main_llm_raises
  \/ main_clean
  \/ main_classify
  \/ main_summarize
  \/ main_raises
  \/ main_get_conn
  \/ main_insert_paper
  \/ main_db_raises
  \/ main_again

Spec == Init /\ [][Next]_vars

---------------------------------------------------------------------------
(* summarize applied to texts of about MIN_SUMMARY_WORDS words             *)

MaxWords == 61

SumPrefixes == {"", "See [1] "}
SumSuffixes == {"", " end.Start", ". We used SPSS software."}
SumTexts ==
  {p \o Words(n) \o q :
     p \in SumPrefixes, q \in SumSuffixes,
     n \in {1} \cup ((MIN_SUMMARY_WORDS - 2)..MaxWords)}

\* answers of the summarization model (summary_text)
SummaryOutputs ==
  {"", "Union.", "healed well overall here",
   " The fracture healed well overall. ",
   "See CrossRef for the full text.",
   "The crossrefs list the related work.",
   "The doi of the paper is given.",
   "The patients are doing well now.",
   "This is an  Open \n Access paper.",
   "An OpenAccess paper about tibial fractures.",
   "Licensed under creativecommons.org terms online."}

InitSum ==
  /\ text \in SumTexts
  /\ generated = ""
  /\ called = 0
  /\ ret = NoValue
  /\ fn = "input"
  /\ MainNotRun

\* summarize returns at line 198 or 208
SummarizeWithoutModel ==
  /\ fn = "input"
  /\ summarize(text, "").called = 0
  /\ ret' = summarize(text, "").ret
  /\ fn' = "summarize"
  /\ UNCHANGED <<text, generated, called>>
  /\ UNCHANGED pvars

\* summarize calls the model (line 215) and returns at line 228, 233 or 235
SummarizeWithModel ==
  /\ fn = "input"
  /\ summarize(text, "").called = 1
  /\ \E out \in SummaryOutputs :
       /\ generated' = out
       /\ ret' = _safety_filter(out)
  /\ called' = called + 1
  /\ fn' = "summarize"
  /\ UNCHANGED text
  /\ UNCHANGED pvars

\* the model raises (line 210 or 215)
SummarizerRaises ==
  /\ fn = "input"
  /\ summarize(text, "").called = 1
  /\ called' = called + 1
  /\ fn' = "raised"
  /\ UNCHANGED <<text, generated, ret>>
  /\ UNCHANGED pvars

NextSum == SummarizeWithoutModel \/ SummarizeWithModel \/ SummarizerRaises

SpecSum == InitSum /\ [][NextSum]_vars

---------------------------------------------------------------------------
(* classify_by_keywords applied to the texts made of at most MaxPieces     *)
(* phrases of KwPieces, separated by a space                               *)

MaxPieces == 3

KwPieces ==
  {"the left knee", "the right knee", "proximal tibia", "distal radius",
   "medial, lateral and posterior", "Pelvis"}

RECURSIVE Concats(_, _)
Concats(pieces, n) ==
  IF n = 0 THEN {""}
  ELSE LET shorter == Concats(pieces, n - 1)
       IN  shorter \cup {IF s = "" THEN p ELSE s \o " " \o p : s \in shorter, p \in pieces}

KwTexts == Concats(KwPieces, MaxPieces)

InitKw ==
  /\ text \in KwTexts
  /\ generated = ""
  /\ called = 0
  /\ ret = NoValue
  /\ fn = "input"
  /\ MainNotRun

Classify ==
  /\ fn = "input"
  /\ ret' = classify_by_keywords(text)
  /\ fn' = "classify_by_keywords"
  /\ UNCHANGED <<text, generated, called>>
  /\ UNCHANGED pvars

NextKw == Classify

SpecKw == InitKw /\ [][NextKw]_vars

---------------------------------------------------------------------------
(* Claims about src/keywords.py, under SpecKw                              *)

Classified == fn = "classify_by_keywords"

RegionOrder == <<"tibial_plateau", "pelvis", "distal_radius">>

RegionHits(r) ==
  _count_hits(text, (CHOOSE e \in {REGION_KEYWORDS[k] : k \in 1..Len(REGION_KEYWORDS)} : e.name = r).kws)

LocationNames == {LOCATION_KEYWORDS[k].name : k \in 1..Len(LOCATION_KEYWORDS)}

LocationHits(l) ==
  _count_hits(text, (CHOOSE e \in {LOCATION_KEYWORDS[k] : k \in 1..Len(LOCATION_KEYWORDS)} : e.name = l).kws)

\* some keyword of some region occurs in the text, whatever the case
SomeRegionKeywordOccurs ==
  \E k \in 1..Len(REGION_KEYWORDS) : \E j \in 1..Len(REGION_KEYWORDS[k].kws) :
    Occurrences(Lower(text), REGION_KEYWORDS[k].kws[j]) # {}

\* C3: classify_by_keywords returns the region with the highest total hit
\* count and that count as region_score; on a tie the region listed first in
\* the order tibial_plateau, pelvis, distal_radius; region is "inconnu"
\* exactly when region_score is 0, that is when no region keyword occurs.
C3_RegionIsFirstMaximum ==
  Classified =>
    LET h == [k \in 1..3 |-> RegionHits(RegionOrder[k])]
        best == SetMax({h[k] : k \in 1..3})
        first == SetMin({k \in 1..3 : h[k] = best})
    IN  /\ ret.region_score = best
        /\ best > 0 => ret.region = RegionOrder[first]
        /\ ret.region = "inconnu" <=> ret.region_score = 0
        /\ ret.region_score = 0 <=> ~SomeRegionKeywordOccurs

\* a tie between two regions at a positive score, decided for the first
C3_Witness ==
  /\ Classified
  /\ RegionHits("pelvis") = RegionHits("distal_radius")
  /\ RegionHits("pelvis") > RegionHits("tibial_plateau")
  /\ ret.region = "pelvis"

InList(l, s) == \E k \in 1..Len(s) : s[k] = l

\* C4: the locations returned never hold both "left" and "right", never both
\* "proximal" and "distal", hold no duplicate, at most max_items (3) entries,
\* and only locations whose keyword hit count is greater than 0.
C4_LocationsConsistent ==
  Classified =>
    LET locs == ret.locations
    IN  /\ ~(InList("left", locs) /\ InList("right", locs))
        /\ ~(InList("proximal", locs) /\ InList("distal", locs))
        /\ \A i, j \in 1..Len(locs) : locs[i] = locs[j] => i = j
        /\ Len(locs) <= 3
        /\ \A i \in 1..Len(locs) : locs[i] \in LocationNames /\ LocationHits(locs[i]) > 0

\* both sides occur in the text, and more than three locations do
C4_Witness ==
  /\ Classified
  /\ LocationHits("left") > 0
  /\ LocationHits("right") > 0
  /\ Cardinality({l \in LocationNames : LocationHits(l) > 0}) > 3
  /\ Len(ret.locations) = 3

Partner(l) ==
  CASE l = "left" -> "right"
    [] l = "right" -> "left"
    [] l = "proximal" -> "distal"
    [] l = "distal" -> "proximal"
    [] OTHER -> "none"

\* l is the less frequent member of a conflicting pair of the text
LessFrequentOfPair(l) ==
  /\ Partner(l) # "none"
  /\ LocationHits(Partner(l)) > 0
  /\ LocationHits(Partner(l)) >= LocationHits(l)

\* C5: once the less frequent member of each conflicting pair is discarded,
\* every location returned has a hit count greater than or equal to that of
\* every remaining location left out of the list.
C5_ReturnedAreMostFrequent ==
  Classified =>
    \A a \in LocationNames : \A b \in LocationNames :
      ( /\ InList(a, ret.locations)
        /\ ~InList(b, ret.locations)
        /\ LocationHits(b) > 0
        /\ ~LessFrequentOfPair(b) )
      => LocationHits(a) >= LocationHits(b)

---------------------------------------------------------------------------
(* Claims about summarize, under SpecSum                                   *)

\* C6: for a text of fewer than 60 words, summarize returns the original
\* text unchanged and does not call the summarization model.
C6_ShortTextReturnedUnchanged ==
  (fn # "input" /\ WordCount(text) < 60) =>
    (fn = "summarize" /\ ret = text /\ called = 0)

\* the maximal runs of word characters of t
WordsOf(t) ==
  {SubSeq(t, a, b) : <<a, b>> \in
     {<<a, b>> \in (1..Len(t)) \X (1..Len(t)) :
        /\ a <= b
        /\ \A k \in a..b : IsWordChar(Ch(t, k))
        /\ ~IsWordChar(Ch(t, a - 1))
        /\ ~IsWordChar(Ch(t, b + 1))}}

\* t holds "open", whitespace, "access"
OpenAccessIn(t) ==
  \E a \in Occurrences(t, "open") : \E b \in Occurrences(t, "access") :
    /\ a + 4 < b
    /\ \A k \in (a + 4)..(b - 1) : IsSpace(Ch(t, k))

\* a bibliographic marker: the word crossref or doi, creativecommons, or
\* open access, in any case
BiblioMarkerIn(t) ==
  \/ "crossref" \in WordsOf(Lower(t))
  \/ "doi" \in WordsOf(Lower(t))
  \/ Occurrences(Lower(t), "creativecommons") # {}
  \/ OpenAccessIn(Lower(t))

---------------------------------------------------------------------------
(* Claims about main                                                       *)

\* the stages of main after the test of line 54
PastFallback ==
  {"fallback_done", "cleaned", "classified", "summarized", "connected", "done"}

\* the run has passed line 54, or has failed at line 58 or later
FallbackDecided ==
  \/ pc \in PastFallback
  \/ pc = "failed" /\ frame.failed_at \in PastFallback \cup {"sectioned"}

\* the regex extraction is insufficient, as the claim words it
RegexInsufficient ==
  LET abstract == sections_found[1]
      conclusion == sections_found[2]
  IN  \/ abstract = ""
      \/ WordCount(abstract) < 50
      \/ conclusion = ""
      \/ WordCount(conclusion) < 30

\* C1: the LLM fallback is invoked if and only if the regex abstract is empty
\* or has fewer than 50 words, or the regex conclusion is empty or has fewer
\* than 30 words; it is invoked at most once per run, and never when both
\* sections reach their thresholds.
C1_FallbackIffInsufficient ==
  /\ llm_calls <= 1
  /\ FallbackDecided => (llm_calls = 1 <=> RegexInsufficient)
  /\ ~FallbackDecided => llm_calls = 0

\* a completed run where the abstract alone reaches its threshold and the
\* fallback was called
C1_Witness ==
  /\ pc = "done"
  /\ llm_calls = 1
  /\ WordCount(sections_found[1]) = 50
  /\ WordCount(sections_found[2]) = 29

\* C2: every run that completes adds exactly one row to papers and leaves the
\* rows already there unchanged, also across repeated get_conn calls and
\* repeated runs on the same PDF; db_id is the id of the inserted row and is
\* strictly greater than the id of every row that was there.
C2_OneRowPerCompletedRun ==
  LET before == db_before.papers
      now == db.papers
  IN  /\ pc = "done" =>
           /\ Len(now) = Len(before) + 1
           /\ SubSeq(now, 1, Len(before)) = before
           /\ frame.db_id = now[Len(now)].id
           /\ \A k \in 1..Len(before) : before[k].id < frame.db_id
      /\ pc # "done" => now = before
      /\ \A j, k \in 1..Len(now) : j # k => now[j].id # now[k].id

\* a second run on the same PDF has completed
C2_Witness ==
  /\ pc = "done"
  /\ run >= 2
  /\ Len(db.papers) = 2
  /\ db.papers[1].data.pdf_path = db.papers[2].data.pdf_path
  /\ frame.db_id = 2

\* the stages before the database is opened at line 108
EarlierStages ==
  {"start", "extracted", "sectioned", "fallback_done", "cleaned", "classified"}

\* C8: if a stage before the database raises (the PDF is missing, the
\* fallback, the classification or the summarization raises), the run ends
\* without opening or creating the database and without inserting a row.
C8_FailureLeavesDatabaseAlone ==
  pc = "failed" /\ frame.failed_at \in EarlierStages => db = db_before

\* the PDF is missing and no database file exists
C8_Witness ==
  /\ pc = "failed"
  /\ frame.failed_at = "start"
  /\ frame.pdf_path = PDF_MISSING
  /\ ~db.file

====
